---- MODULE Spec2Model ----
(***************************************************************************)
(* A model of app.py, the Streamlit S-parameter plotter: the Touchstone    *)
(* parser (parse_s_param), the baseline reduction (apply_reduction), the   *)
(* series builder (plot_files), the two-file averaging (criar_media) and   *)
(* the script body that keeps the working set in st.session_state.         *)
(*                                                                         *)
(* Numbers.  Python floats are modelled as exact rationals [n, d] in       *)
(* lowest terms with d > 0, so that / 1e9, * 1e9, the mean, np.interp and  *)
(* the ":.6f" rounding are computed, not assumed.  Floating-point rounding *)
(* error itself (of the order of 1e-16 relative) is not modelled.          *)
(*                                                                         *)
(* Text.  A file's content is a sequence of lines; a line is               *)
(* [lead, toks]: whether it starts with white space, and its white-space   *)
(* separated tokens.  A token is [kind, first, v]: kind "num" when float() *)
(* accepts it (v is then its value), "text" when float() raises            *)
(* ValueError; first is the class of its first character ("#", "!", "a"    *)
(* for a letter, "d" for a digit or sign).                                 *)
(*                                                                         *)
(* A file name is a sequence of segments, the last one being the           *)
(* extension with its dot, e.g. <<"a", ".S1P">>.                           *)
(***************************************************************************)
EXTENDS Integers, Sequences, FiniteSets, TLC

VARIABLES
    \* ---- parse_s_param on its own (SpecParse)
    p_filename,     \* the filename argument
    p_content,      \* the file_content argument, the lines written so far
    p_trace,        \* the returned (freq, s_real, s_imag), once parsed
    p_pc,           \* "input" while the file is written, "parsed" after the call
    \* ---- apply_reduction on its own (SpecReduce)
    r_freq,         \* the freq argument (GHz)
    r_mag_db,       \* the mag_db argument (dB)
    r_red_freq,     \* the red_freq argument
    r_red_mag_db,   \* the red_mag_db argument
    r_result,       \* [err, out]: the exception raised, or the array returned
    r_pc,           \* "input" while the arguments are chosen, "done" after the call
    \* ---- plot_files and the "Gerar Grafico" handler on their own (SpecPlot, SpecRender)
    pl_files,       \* files_data: the ordered (filename, file_content) pairs
    pl_flags,       \* the apply flag of each file, by index
    pl_red_freq,    \* red_freq of lines 147-152: None or an array
    pl_red_mag_db,  \* red_mag_db of lines 147-152: None or an array
    pl_agrupar,     \* what st.radio returned on line 192
    pl_result,      \* [err, groups]: the exception raised, the charts drawn
    pl_pc,          \* "input", then "done" after the call
    \* ---- criar_media on its own (SpecAvg)
    a_file1,        \* (file1_name, file1_content)
    a_file2,        \* (file2_name, file2_content)
    a_result,       \* what criar_media returned, with its re_mean, im_mean, freq_mean
    a_back,         \* the synthesized file parsed again under its own name
    a_pc,           \* "input", "done" after criar_media, "back" after the re-parse
    \* ---- the script body, run once per user interaction (Spec)
    s_has_files,    \* 'files_data' in st.session_state
    s_files,        \* st.session_state['files_data']
    s_has_apply,    \* 'apply_reduction' in st.session_state
    s_apply,        \* st.session_state['apply_reduction']
    s_uploaded,     \* the names the measurement uploader holds (uploaded_files)
    s_shown,        \* the names with a row (checkbox, button) on the page
    s_removed,      \* the names removed and not added by the user since
    s_last          \* the last run: its event, its exception, what its handler did

parseVars == <<p_filename, p_content, p_trace, p_pc>>

reduceVars == <<r_freq, r_mag_db, r_red_freq, r_red_mag_db, r_result, r_pc>>

plotVars == <<pl_files, pl_flags, pl_red_freq, pl_red_mag_db, pl_agrupar, pl_result, pl_pc>>

avgVars == <<a_file1, a_file2, a_result, a_back, a_pc>>

sessVars == <<s_has_files, s_files, s_has_apply, s_apply, s_uploaded,
              s_shown, s_removed, s_last>>

vars == <<parseVars, reduceVars, plotVars, avgVars, sessVars>>

(***************************************************************************)
(* Exact rational arithmetic standing for float arithmetic.                *)
(***************************************************************************)
Abs(x) == IF x < 0 THEN -x ELSE x

RECURSIVE GCD(_, _)
GCD(a, b) == IF b = 0 THEN a ELSE GCD(b, a % b)

LCM(a, b) == (a \div GCD(a, b)) * b

Rat(n, d) ==
    LET g == GCD(Abs(n), Abs(d))
        s == IF d < 0 THEN -1 ELSE 1
    IN  [n |-> s * (n \div g), d |-> Abs(d) \div g]

Zero == [n |-> 0, d |-> 1]

RInt(k) == [n |-> k, d |-> 1]

RAdd(a, b) ==
    LET l == LCM(a.d, b.d)
    IN  Rat(a.n * (l \div a.d) + b.n * (l \div b.d), l)

RNeg(a) == [n |-> -a.n, d |-> a.d]

RSub(a, b) == RAdd(a, RNeg(b))

RMul(a, b) ==
    LET g1 == GCD(Abs(a.n), b.d)
        g2 == GCD(Abs(b.n), a.d)
    IN  Rat((a.n \div g1) * (b.n \div g2), (a.d \div g2) * (b.d \div g1))

\* b is not zero
RDiv(a, b) ==
    RMul(a, [n |-> (IF b.n < 0 THEN -b.d ELSE b.d), d |-> Abs(b.n)])

RLess(a, b) ==
    LET l == LCM(a.d, b.d)
    IN  a.n * (l \div a.d) < b.n * (l \div b.d)

RLeq(a, b) == a = b \/ RLess(a, b)

RAbs(a) == [n |-> Abs(a.n), d |-> a.d]

\* The literal 1e9 of lines 26 and 106.
GIGA == 1000000000

(***************************************************************************)
(* Tokens, lines and file names.                                           *)
(***************************************************************************)
Num(r) == [kind |-> "num", first |-> "d", v |-> r]

Txt(c) == [kind |-> "text", first |-> c, v |-> Zero]

Line(toks) == [lead |-> FALSE, toks |-> toks]

\* str.lower() on a file name: the extension segments the model uses.
Lower(seg) ==
    CASE seg = ".S1P" -> ".s1p"
      [] seg = ".S2P" -> ".s2p"
      [] seg = ".CAL" -> ".cal"
      [] OTHER -> seg

\* filename.lower().endswith(ext)
EndsWithLower(filename, ext) ==
    Len(filename) > 0 /\ Lower(filename[Len(filename)]) = ext

\* line.strip(): the leading white space goes (trailing white space is not
\* represented: it changes neither startswith nor split).
Strip(line) == [lead |-> FALSE, toks |-> line.toks]

\* not line: the stripped line is the empty string
IsBlank(line) == ~line.lead /\ line.toks = <<>>

\* line.startswith(c)
StartsWith(line, c) ==
    ~line.lead /\ line.toks # <<>> /\ line.toks[1].first = c

\* line.split()
Split(line) == line.toks

\* float(tok) raises ValueError
FloatRaises(tok) == tok.kind # "num"

\* float(tok), when it does not raise
Float(tok) == tok.v

(***************************************************************************)
(* parse_s_param (lines 10-41).  ParseLine is one pass of the loop body:   *)
(* the empty sequence when the line is skipped (continue, or the except    *)
(* clause), else the one point appended to freq, s_real and s_imag.        *)
(* Sequences are 1-indexed: data[0] of the code is data[1] here.           *)
(***************************************************************************)
\* The token counts len(data) is compared with (lines 23 and 31).
MinTokens1Port == 3
MinTokens2Port == 5

\* ParseLine with the 2-port branch reading the S11 pair, data[1] and data[2].
ParseLine_S11(raw, is_s1p) ==
    LET line == Strip(raw)
        data == Split(line)
    IN  IF IsBlank(line) \/ StartsWith(line, "#") \/ StartsWith(line, "!")
        THEN <<>>
        ELSE IF Len(data) < MinTokens1Port
        THEN <<>>
        ELSE IF FloatRaises(data[1]) \/ FloatRaises(data[2]) \/ FloatRaises(data[3])
        THEN <<>>
        ELSE IF ~is_s1p /\ Len(data) < MinTokens2Port
        THEN <<>>
        ELSE << [f |-> RDiv(Float(data[1]), RInt(GIGA)),
                 re |-> Float(data[2]),
                 im |-> Float(data[3])] >>

ParseLine(raw, is_s1p) ==
    LET line == Strip(raw)
        data == Split(line)
    IN  IF IsBlank(line) \/ StartsWith(line, "#") \/ StartsWith(line, "!")
        THEN <<>>
        ELSE IF Len(data) < MinTokens1Port
        THEN <<>>
        ELSE IF FloatRaises(data[1])
        THEN <<>>
        ELSE IF is_s1p
        THEN IF FloatRaises(data[2]) \/ FloatRaises(data[3])
             THEN <<>>
             ELSE << [f |-> RDiv(Float(data[1]), RInt(GIGA)),
                      re |-> Float(data[2]),
                      im |-> Float(data[3])] >>
        ELSE IF Len(data) < MinTokens2Port
        THEN <<>>
        ELSE IF FloatRaises(data[4]) \/ FloatRaises(data[5])
        THEN <<>>
        ELSE << [f |-> RDiv(Float(data[1]), RInt(GIGA)),
                 re |-> Float(data[4]),
                 im |-> Float(data[5])] >>

RECURSIVE ParsePoints(_, _)
ParsePoints(lines, is_s1p) ==
    IF lines = <<>> THEN <<>>
    ELSE ParseLine(Head(lines), is_s1p) \o ParsePoints(Tail(lines), is_s1p)

IsS1p(filename) ==
    EndsWithLower(filename, ".s1p") \/ EndsWithLower(filename, ".cal")

\* The three arrays returned on line 41.
parse_s_param(file_content, filename) ==
    LET pts == ParsePoints(file_content, IsS1p(filename))
    IN  [freq   |-> [i \in 1..Len(pts) |-> pts[i].f],
         s_real |-> [i \in 1..Len(pts) |-> pts[i].re],
         s_imag |-> [i \in 1..Len(pts) |-> pts[i].im]]

NoTrace == [freq |-> <<>>, s_real |-> <<>>, s_imag |-> <<>>]

(***************************************************************************)
(* SpecParse: parse_s_param applied to every file of at most MaxLines      *)
(* lines under every name of ParseNames.                                   *)
(***************************************************************************)
MaxLines == 2

ParseNames ==
    { <<"a", ".s1p">>, <<"b", ".CAL">>, <<"c", ".s2p">>, <<"d", ".txt">> }

\* The token at position i of a data line: a number whose value tells the
\* position it was read from, or a word float() rejects.
TokenAt(i, numeric) == IF numeric THEN Num(RInt(i * 200000000)) ELSE Txt("a")

\* Data lines of 0 .. MinTokens2Port tokens, every pattern of numeric and
\* non-numeric tokens, with or without leading white space when empty.
DataLines ==
    UNION { { [lead |-> FALSE, toks |-> [i \in 1..k |-> TokenAt(i, i \in S)]]
              : S \in SUBSET (1..k) } : k \in 0..MinTokens2Port }

OtherLines ==
    { [lead |-> TRUE, toks |-> <<>>],
      [lead |-> FALSE, toks |-> <<Txt("#"), Txt("a"), Num(RInt(50))>>],
      [lead |-> TRUE,  toks |-> <<Txt("#"), Num(RInt(1)), Num(RInt(2)), Num(RInt(3)),
                                  Num(RInt(4)), Num(RInt(5))>>],
      [lead |-> FALSE, toks |-> <<Txt("!"), Txt("a"), Txt("a")>>],
      [lead |-> TRUE,  toks |-> [i \in 1..9 |-> TokenAt(i, TRUE)]],
      [lead |-> FALSE, toks |-> [i \in 1..9 |-> TokenAt(i, i \in {1, 4, 5})]] }

ParseLines == DataLines \cup OtherLines

\* The caller names the file.
PName ==
    /\ p_pc = "input"
    /\ p_filename = <<>>
    /\ \E name \in ParseNames : p_filename' = name
    /\ UNCHANGED <<p_content, p_trace, p_pc>>
    /\ UNCHANGED <<reduceVars, plotVars, avgVars, sessVars>>

\* The caller supplies one more line of the file.
PWriteLine ==
    /\ p_pc = "input"
    /\ p_filename # <<>>
    /\ Len(p_content) < MaxLines
    /\ \E line \in ParseLines : p_content' = Append(p_content, line)
    /\ UNCHANGED <<p_filename, p_trace, p_pc>>
    /\ UNCHANGED <<reduceVars, plotVars, avgVars, sessVars>>

\* parse_s_param(file_content, filename)
PParse ==
    /\ p_pc = "input"
    /\ p_filename # <<>>
    /\ p_trace' = parse_s_param(p_content, p_filename)
    /\ p_pc' = "parsed"
    /\ UNCHANGED <<p_filename, p_content>>
    /\ UNCHANGED <<reduceVars, plotVars, avgVars, sessVars>>

ParseNext == PName \/ PWriteLine \/ PParse


(***************************************************************************)
(* Arrays that may be None (red_freq and red_mag_db of lines 147-152).     *)
(***************************************************************************)
None == [none |-> TRUE, a |-> <<>>]

Arr(a) == [none |-> FALSE, a |-> a]

Ok(out) == [err |-> "none", out |-> out]

Raise(e) == [err |-> e, out |-> <<>>]

(***************************************************************************)
(* np.interp(x, xp, fp, left, right) for one x and a non-decreasing xp:    *)
(* left below xp[0], right above xp[-1], fp[j] when x is xp[j], else the   *)
(* line through the points j and j + 1, j being the last index with        *)
(* xp[j] <= x.                                                             *)
(***************************************************************************)
InterpAt(x, xp, fp, left, right) ==
    LET n == Len(xp)
    IN  IF RLess(x, xp[1]) THEN left
        ELSE IF RLess(xp[n], x) THEN right
        ELSE LET j == CHOOSE i \in 1..n :
                        /\ RLeq(xp[i], x)
                        /\ \A k \in (i + 1)..n : RLess(x, xp[k])
             IN  IF j = n \/ xp[j] = x THEN fp[j]
                 ELSE LET slope == RDiv(RSub(fp[j + 1], fp[j]), RSub(xp[j + 1], xp[j]))
                      IN  RAdd(RMul(slope, RSub(x, xp[j])), fp[j])

Interp(xs, xp, fp, left, right) ==
    [i \in 1..Len(xs) |-> InterpAt(xs[i], xp, fp, left, right)]

\* The permutations that leave the keys in their given order: no sort at all.
ArgSorts_Identity(keys) == { [i \in 1..Len(keys) |-> i] }

\* np.argsort(keys): the default kind is not stable, so any index array that
\* puts the keys in non-decreasing order may be returned.
ArgSorts(keys) ==
    LET n == Len(keys)
    IN  { p \in [1..n -> 1..n] :
            /\ \A i, j \in 1..n : i # j => p[i] # p[j]
            /\ \A i \in 1..(n - 1) : RLeq(keys[p[i]], keys[p[i + 1]]) }

\* a[idx]: fancy indexing by an index array
Take(a, idx) == [i \in 1..Len(idx) |-> a[idx[i]]]

(***************************************************************************)
(* apply_reduction (lines 44-55).  red_freq and red_mag_db are arrays or   *)
(* None; sort_idx is the index array np.argsort returned on line 48.  The  *)
(* "or" of line 45 does not evaluate len(red_mag_db) when len(red_freq)    *)
(* is 0.                                                                   *)
(***************************************************************************)
\* apply_reduction with line 45 taking both lengths before it compares them.
apply_reduction_BothLens(freq, mag_db, red_freq, red_mag_db, sort_idx) ==
    IF red_freq.none \/ red_mag_db.none THEN Raise("TypeError")
    ELSE IF Len(red_freq.a) = 0 \/ Len(red_mag_db.a) = 0 THEN Ok(mag_db)
    ELSE LET sfreq == Take(red_freq.a, sort_idx)
             smag  == Take(red_mag_db.a, sort_idx)
             red_interp == Interp(freq, sfreq, smag, smag[1], smag[Len(smag)])
         IN  Ok([i \in 1..Len(mag_db) |-> RSub(mag_db[i], red_interp[i])])

apply_reduction(freq, mag_db, red_freq, red_mag_db, sort_idx) ==
    IF red_freq.none THEN Raise("TypeError")
    ELSE IF Len(red_freq.a) = 0 THEN Ok(mag_db)
    ELSE IF red_mag_db.none THEN Raise("TypeError")
    ELSE IF Len(red_mag_db.a) = 0 THEN Ok(mag_db)
    ELSE IF \E i \in 1..Len(sort_idx) : sort_idx[i] > Len(red_mag_db.a)
    THEN Raise("IndexError")
    ELSE LET sfreq == Take(red_freq.a, sort_idx)
             smag  == Take(red_mag_db.a, sort_idx)
             red_interp == Interp(freq, sfreq, smag, smag[1], smag[Len(smag)])
         IN  Ok([i \in 1..Len(mag_db) |-> RSub(mag_db[i], red_interp[i])])

(***************************************************************************)
(* SpecReduce: apply_reduction applied to every target curve of at most    *)
(* MaxTarget points and every reference curve of at most MaxRef points,    *)
(* the reference in any order and with repeated frequencies.               *)
(***************************************************************************)
MaxTarget == 2
MaxRef == 2

TargetFreqs == { RInt(0), RInt(2), RInt(3), RInt(6) }
TargetMags == { RInt(0), RInt(-10) }
RefFreqs == { RInt(1), RInt(3), RInt(5) }
RefMags == { RInt(-2), RInt(4) }

\* One more point of the target curve.
RAddTarget ==
    /\ r_pc = "input"
    /\ Len(r_freq) < MaxTarget
    /\ \E f \in TargetFreqs, m \in TargetMags :
          /\ r_freq' = Append(r_freq, f)
          /\ r_mag_db' = Append(r_mag_db, m)
    /\ UNCHANGED <<r_red_freq, r_red_mag_db, r_result, r_pc>>
    /\ UNCHANGED <<parseVars, plotVars, avgVars, sessVars>>

\* One more point of the reference curve.
RAddRef ==
    /\ r_pc = "input"
    /\ Len(r_red_freq) < MaxRef
    /\ \E f \in RefFreqs, m \in RefMags :
          /\ r_red_freq' = Append(r_red_freq, f)
          /\ r_red_mag_db' = Append(r_red_mag_db, m)
    /\ UNCHANGED <<r_freq, r_mag_db, r_result, r_pc>>
    /\ UNCHANGED <<parseVars, plotVars, avgVars, sessVars>>

\* apply_reduction(freq, mag_db, red_freq, red_mag_db)
RApply ==
    /\ r_pc = "input"
    /\ \E sort_idx \in ArgSorts(r_red_freq) :
          r_result' = apply_reduction(r_freq, r_mag_db, Arr(r_red_freq),
                                      Arr(r_red_mag_db), sort_idx)
    /\ r_pc' = "done"
    /\ UNCHANGED <<r_freq, r_mag_db, r_red_freq, r_red_mag_db>>
    /\ UNCHANGED <<parseVars, plotVars, avgVars, sessVars>>

ReduceNext == RAddTarget \/ RAddRef \/ RApply

(***************************************************************************)
(* 20 * np.log10(np.sqrt(s_real**2 + s_imag**2 + 1e-12)), lines 66 and     *)
(* 152.  The logarithm is tabulated, to 1e-4 dB, on the sums of squares    *)
(* the model's files hold; the 1e-12 makes 0 + 0j exactly -120 dB.         *)
(***************************************************************************)
MagDbOf(re, im) ==
    LET s == RAdd(RMul(re, re), RMul(im, im))
    IN  CASE s = RInt(0)  -> RInt(-120)
          [] s = RInt(1)  -> RInt(0)
          [] s = RInt(4)  -> Rat(60206, 10000)
          [] s = RInt(25) -> Rat(139794, 10000)

MagDb(s_real, s_imag) ==
    [i \in 1..Len(s_real) |-> MagDbOf(s_real[i], s_imag[i])]

(***************************************************************************)
(* plot_files (lines 58-79).  The result is [err, series]: the exception   *)
(* that escaped, and the ax.plot calls made before it, in order, each      *)
(* [label, freq, mag_db].  sort_idx is what np.argsort returns inside      *)
(* apply_reduction for this red_freq.                                      *)
(***************************************************************************)
\* apply_reduction_flags[idx] read at the position among the series drawn so far.
FlagIndex_Drawn(idx, drawn) == drawn + 1

\* The index plot_files reads the flag at (line 68): enumerate's idx.
FlagIndex(idx, drawn) == idx

\* Lines 68-71 for a non-empty trace: the series drawn, or the exception.
PlotDrawn(filename, freq, mag_db, reduce, red_freq, red_mag_db, sort_idx) ==
    IF reduce
    THEN LET r == apply_reduction(freq, mag_db, red_freq, red_mag_db, sort_idx)
         IN  IF r.err # "none" THEN Raise(r.err)
             ELSE Ok(<< [label |-> filename, freq |-> freq, mag_db |-> r.out] >>)
    ELSE Ok(<< [label |-> filename, freq |-> freq, mag_db |-> mag_db] >>)

\* Lines 63-71 for the parsed trace t of the file, its flag read at index at.
PlotParsed(filename, t, at, red_freq, red_mag_db, flags, sort_idx) ==
    IF Len(t.freq) = 0 THEN Ok(<<>>)
    ELSE IF at > Len(flags) THEN Raise("IndexError")
    ELSE PlotDrawn(filename, t.freq, MagDb(t.s_real, t.s_imag),
                   flags[at] /\ ~red_freq.none, red_freq, red_mag_db, sort_idx)

\* One pass of the loop of lines 61-71 for the file at idx, drawn series so far.
PlotOne(idx, drawn, files_data, red_freq, red_mag_db, flags, sort_idx) ==
    PlotParsed(files_data[idx].name,
               parse_s_param(files_data[idx].content, files_data[idx].name),
               FlagIndex(idx, drawn), red_freq, red_mag_db, flags, sort_idx)

RECURSIVE PlotFrom(_, _, _, _, _, _, _)
\* After the pass at idx gave one: stop on its exception, else go on.
PlotStep(one, idx, done, files_data, red_freq, red_mag_db, flags, sort_idx) ==
    IF one.err # "none" THEN [err |-> one.err, out |-> done]
    ELSE PlotFrom(idx + 1, done \o one.out, files_data, red_freq, red_mag_db,
                  flags, sort_idx)

\* The loop of lines 61-71 from idx on, done being the series drawn so far.
PlotFrom(idx, done, files_data, red_freq, red_mag_db, flags, sort_idx) ==
    IF idx > Len(files_data) THEN Ok(done)
    ELSE PlotStep(PlotOne(idx, Len(done), files_data, red_freq, red_mag_db,
                          flags, sort_idx),
                  idx, done, files_data, red_freq, red_mag_db, flags, sort_idx)

\* One chart: its title and its series.
Chart(titulo, r) == [err |-> r.err, title |-> titulo, series |-> r.out]

plot_files(files_data, titulo, red_freq, red_mag_db, apply_reduction_flags, sort_idx) ==
    Chart(titulo, PlotFrom(1, <<>>, files_data, red_freq, red_mag_db,
                           apply_reduction_flags, sort_idx))

\* What a single call of plot_files leaves on the page.
OneChart(r) ==
    [err |-> r.err, groups |-> << [title |-> r.title, series |-> r.series] >>,
     warned |-> FALSE]

\* np.argsort(red_freq) for a red_freq that may be None or empty
SortIdxOf(red_freq) == IF red_freq.none THEN {<<>>} ELSE ArgSorts(red_freq.a)

(***************************************************************************)
(* The reduction upload block (lines 147-152): red_freq and red_mag_db     *)
(* from the uploaded reduction file, None without one.  red is <<>> or     *)
(* <<[name, content]>>.                                                    *)
(***************************************************************************)
RedFreqOf(red) ==
    IF red = <<>> THEN None
    ELSE Arr(parse_s_param(red[1].content, red[1].name).freq)

RedMagDbOf(red) ==
    IF red = <<>> THEN None
    ELSE LET t == parse_s_param(red[1].content, red[1].name)
         IN  IF Len(t.freq) > 0 THEN Arr(MagDb(t.s_real, t.s_imag)) ELSE None

(***************************************************************************)
(* Files of the model: rows in Hz, real, imaginary.                        *)
(***************************************************************************)
Hz(k) == Num(RInt(k * 250000000))

\* A 1-port row: frequency, S11 real, S11 imaginary
Row1(k, re, im) == Line(<<Hz(k), Num(RInt(re)), Num(RInt(im))>>)

\* A 2-port row: frequency, S11 pair, S21 pair, S12 pair, S22 pair
Row2(k, re, im) ==
    Line(<<Hz(k), Num(RInt(7)), Num(RInt(7)), Num(RInt(re)), Num(RInt(im)),
           Num(RInt(7)), Num(RInt(7)), Num(RInt(7)), Num(RInt(7))>>)

HeaderLine == Line(<<Txt("#"), Txt("a"), Txt("a"), Txt("a"), Txt("a"), Num(RInt(50))>>)

CommentLine == Line(<<Txt("!"), Txt("a"), Txt("a"), Txt("a"), Txt("a")>>)

File(name, content) == [name |-> name, content |-> content]

\* Measurements: a 1-port sweep, a 2-port sweep, and a file of header lines only.
FileA == File(<<"a", ".s1p">>, <<HeaderLine, Row1(2, 3, 4), Row1(4, 1, 0)>>)
FileB == File(<<"b", ".s2p">>, <<CommentLine, HeaderLine, Row2(1, 0, 2), Row2(8, 1, 0)>>)
FileE == File(<<"e", ".s2p">>, <<CommentLine, HeaderLine>>)

\* Reduction files: a calibration sweep written in descending frequency, and an
\* empty one.
FileR == File(<<"r", ".cal">>, <<Row1(6, 2, 0), Row1(2, 0, 1)>>)
FileRE == File(<<"re", ".cal">>, <<HeaderLine>>)

(***************************************************************************)
(* SpecPlot: plot_files called on every list of at most MaxPlotFiles of    *)
(* the files above, every flag list of the same length and every           *)
(* reduction (none, empty file, empty arrays, a sweep).                    *)
(***************************************************************************)
MaxPlotFiles == 3

\* The caller lists one more file and its flag.
PlAddFile ==
    /\ pl_pc = "input"
    /\ Len(pl_files) < MaxPlotFiles
    /\ \E f \in {FileA, FileB, FileE}, flag \in BOOLEAN :
          /\ pl_files' = Append(pl_files, f)
          /\ pl_flags' = Append(pl_flags, flag)
    /\ UNCHANGED <<pl_red_freq, pl_red_mag_db, pl_agrupar, pl_result, pl_pc>>
    /\ UNCHANGED <<parseVars, reduceVars, avgVars, sessVars>>

\* A reduction file is uploaded: lines 149-152.
PlLoadReduction ==
    /\ pl_pc = "input"
    /\ pl_red_freq = None
    /\ \E red \in {FileR, FileRE} :
          /\ pl_red_freq' = RedFreqOf(<<red>>)
          /\ pl_red_mag_db' = RedMagDbOf(<<red>>)
    /\ UNCHANGED <<pl_files, pl_flags, pl_agrupar, pl_result, pl_pc>>
    /\ UNCHANGED <<parseVars, reduceVars, avgVars, sessVars>>

\* The caller passes empty reference arrays.
PlEmptyReduction ==
    /\ pl_pc = "input"
    /\ pl_red_freq = None
    /\ pl_red_freq' = Arr(<<>>)
    /\ pl_red_mag_db' = Arr(<<>>)
    /\ UNCHANGED <<pl_files, pl_flags, pl_agrupar, pl_result, pl_pc>>
    /\ UNCHANGED <<parseVars, reduceVars, avgVars, sessVars>>

\* plot_files(files_data, titulo, red_freq, red_mag_db, apply_reduction_flags)
PlPlot ==
    /\ pl_pc = "input"
    /\ \E sort_idx \in SortIdxOf(pl_red_freq) :
          pl_result' = (OneChart(plot_files(pl_files, <<"t">>, pl_red_freq,
                                                    pl_red_mag_db, pl_flags, sort_idx)))
    /\ pl_pc' = "done"
    /\ UNCHANGED <<pl_files, pl_flags, pl_red_freq, pl_red_mag_db, pl_agrupar>>
    /\ UNCHANGED <<parseVars, reduceVars, avgVars, sessVars>>

PlotNext == PlAddFile \/ PlLoadReduction \/ PlEmptyReduction \/ PlPlot

(***************************************************************************)
(* criar_media (lines 82-111).  The result is [none, nome_media,           *)
(* media_content] - none for the (None, None) of line 88 - together with   *)
(* the local arrays freq_mean, re_mean and im_mean of lines 95-97.         *)
(***************************************************************************)
\* The literal 1e-6 resolution of the ":.6f" format of line 107.
MICRO == 1000000

\* Round the non-negative integer ratio num / den to the nearest integer, a
\* tie to the even one (the rule of Python's format on an exact value).
RoundHalfEven(num, den) ==
    IF 2 * (num % den) < den THEN num \div den
    ELSE IF 2 * (num % den) > den THEN (num \div den) + 1
    ELSE IF (num \div den) % 2 = 0 THEN num \div den
    ELSE (num \div den) + 1

\* The integer nearest to n * mul / den, for mul, den > 0
RoundScaled(n, mul, den) ==
    IF n < 0 THEN -RoundHalfEven((-n) * mul, den) ELSE RoundHalfEven(n * mul, den)

\* The value written by f"{x:.6f}": x * 1e6 rounded, over 1e6 (the common
\* factor of 1e6 and x.d is taken out first to keep the products small)
Round6(x) ==
    Rat(RoundScaled(x.n, MICRO \div GCD(MICRO, x.d), x.d \div GCD(MICRO, x.d)), MICRO)

\* Lines 95-96 with the division by 2 left out.
MeanOf_Sum(a, b) == [i \in 1..Len(a) |-> RAdd(a[i], b[i])]

\* (a + b) / 2, elementwise (lines 95-96)
MeanOf(a, b) == [i \in 1..Len(a) |-> RDiv(RAdd(a[i], b[i]), RInt(2))]

\* Lines 91-93: the second file's values on the first file's grid.  np.interp
\* is called without left and right: it then uses fp[0] and fp[-1].
Aligned(freq1, freq2, v2) ==
    IF Len(freq1) # Len(freq2)
    THEN Interp(freq1, freq2, v2, v2[1], v2[Len(v2)])
    ELSE v2

\* Line 107 with the averaged pair written in the S11 columns.
MediaRow_S11(f, re, im) ==
    Line(<<Num(RMul(f, RInt(GIGA))), Num(Round6(re)), Num(Round6(im)),
           Num(Zero), Num(Zero), Num(Zero), Num(Zero), Num(Zero), Num(Zero)>>)

\* Lines 106-107: f"{f_hz} 0 0 {re_mean[i]:.6f} {im_mean[i]:.6f} 0 0 0 0"
MediaRow(f, re, im) ==
    Line(<<Num(RMul(f, RInt(GIGA))), Num(Zero), Num(Zero),
           Num(Round6(re)), Num(Round6(im)),
           Num(Zero), Num(Zero), Num(Zero), Num(Zero)>>)

\* Line 99: f"Media_{file1_name}_{file2_name}.s2p" (the accent is left out)
NomeMedia(file1_name, file2_name) ==
    <<"Media_">> \o file1_name \o <<"_">> \o file2_name \o <<".s2p">>

NoMedia ==
    [none |-> TRUE, nome_media |-> <<>>, media_content |-> <<>>,
     freq_mean |-> <<>>, re_mean |-> <<>>, im_mean |-> <<>>]

\* Lines 97-111
MediaFile(freq_mean, re_mean, im_mean, file1_name, file2_name) ==
    [none |-> FALSE,
     nome_media |-> NomeMedia(file1_name, file2_name),
     media_content |-> <<CommentLine, HeaderLine>> \o
         [i \in 1..Len(freq_mean) |-> MediaRow(freq_mean[i], re_mean[i], im_mean[i])],
     freq_mean |-> freq_mean, re_mean |-> re_mean, im_mean |-> im_mean]

\* Lines 86-111 on the two parsed traces
MediaOf(t1, file1_name, t2, file2_name) ==
    IF Len(t1.freq) = 0 \/ Len(t2.freq) = 0 THEN NoMedia
    ELSE MediaFile(t1.freq,
                   MeanOf(t1.s_real, Aligned(t1.freq, t2.freq, t2.s_real)),
                   MeanOf(t1.s_imag, Aligned(t1.freq, t2.freq, t2.s_imag)),
                   file1_name, file2_name)

criar_media(file1_content, file1_name, file2_content, file2_name) ==
    MediaOf(parse_s_param(file1_content, file1_name), file1_name,
            parse_s_param(file2_content, file2_name), file2_name)

(***************************************************************************)
(* SpecAvg: criar_media on every pair of files of at most MaxRows lines,   *)
(* under 1-port and 2-port names, then the synthesized file parsed again.  *)
(* The second file's sweep is non-decreasing in frequency, which np.interp *)
(* requires of xp; the first file's order is free.                         *)
(***************************************************************************)
MaxRows == 2

AvgNames == { <<"a", ".s1p">>, <<"b", ".s2p">> }

\* Data lines valid in both modes: frequency, S11 pair, S21 pair.
AvgRow(k, x1, x2, x3, x4) == Line(<<Hz(k), Num(x1), Num(x2), Num(x3), Num(x4)>>)

AvgRows ==
    { AvgRow(2, RInt(1), RInt(0), RInt(3), RInt(4)),
      AvgRow(4, RInt(2), Rat(1, 8), RInt(-1), Rat(1, MICRO)),
      AvgRow(8, RInt(0), Rat(1, 2 * MICRO), Rat(3, 2 * MICRO), RInt(1)) }

AvgLines == AvgRows \cup {HeaderLine}

\* The frequency of the last data line of a content, 0 without one
LastHz(content) ==
    IF \A i \in 1..Len(content) : content[i] \notin AvgRows THEN Zero
    ELSE content[CHOOSE i \in 1..Len(content) :
                    /\ content[i] \in AvgRows
                    /\ \A k \in (i + 1)..Len(content) : content[k] \notin AvgRows
                ].toks[1].v

\* The caller names the two files.
AName ==
    /\ a_pc = "input"
    /\ a_file1.name = <<>>
    /\ \E n1 \in AvgNames, n2 \in AvgNames :
          /\ a_file1' = File(n1, <<>>)
          /\ a_file2' = File(n2, <<>>)
    /\ UNCHANGED <<a_result, a_back, a_pc>>
    /\ UNCHANGED <<parseVars, reduceVars, plotVars, sessVars>>

\* One more line of the first file.
AWrite1 ==
    /\ a_pc = "input"
    /\ a_file1.name # <<>>
    /\ Len(a_file1.content) < MaxRows
    /\ \E line \in AvgLines :
          a_file1' = File(a_file1.name, Append(a_file1.content, line))
    /\ UNCHANGED <<a_file2, a_result, a_back, a_pc>>
    /\ UNCHANGED <<parseVars, reduceVars, plotVars, sessVars>>

\* One more line of the second file.
AWrite2 ==
    /\ a_pc = "input"
    /\ a_file2.name # <<>>
    /\ Len(a_file2.content) < MaxRows
    /\ \E line \in AvgLines :
          /\ line \in AvgRows => RLeq(LastHz(a_file2.content), line.toks[1].v)
          /\ a_file2' = File(a_file2.name, Append(a_file2.content, line))
    /\ UNCHANGED <<a_file1, a_result, a_back, a_pc>>
    /\ UNCHANGED <<parseVars, reduceVars, plotVars, sessVars>>

\* criar_media(file1_content, file1_name, file2_content, file2_name)
AAverage ==
    /\ a_pc = "input"
    /\ a_file1.name # <<>>
    /\ a_result' = criar_media(a_file1.content, a_file1.name,
                               a_file2.content, a_file2.name)
    /\ a_pc' = "done"
    /\ UNCHANGED <<a_file1, a_file2, a_back>>
    /\ UNCHANGED <<parseVars, reduceVars, plotVars, sessVars>>

\* parse_s_param(media_content, nome_media): the synthesized file read back.
ABack ==
    /\ a_pc = "done"
    /\ ~a_result.none
    /\ a_back' = parse_s_param(a_result.media_content, a_result.nome_media)
    /\ a_pc' = "back"
    /\ UNCHANGED <<a_file1, a_file2, a_result>>
    /\ UNCHANGED <<parseVars, reduceVars, plotVars, sessVars>>

AvgNext == AName \/ AWrite1 \/ AWrite2 \/ AAverage \/ ABack

(***************************************************************************)
(* st.session_state['files_data'] is a dict, kept in insertion order: a    *)
(* sequence of (name, content) entries with distinct names.                *)
(***************************************************************************)
\* name in d
DictHas(d, name) == \E i \in 1..Len(d) : d[i].name = name

\* d[name] = content: a new key goes last, an old one keeps its place
DictSet(d, name, content) ==
    IF DictHas(d, name)
    THEN [i \in 1..Len(d) |-> IF d[i].name = name THEN File(name, content) ELSE d[i]]
    ELSE Append(d, File(name, content))

\* del d[name]
DictDel(d, name) == SelectSeq(d, LAMBDA e : e.name # name)

\* the keys of d
KeySet(d) == {d[i].name : i \in 1..Len(d)}

(***************************************************************************)
(* The "Gerar Grafico" handler (lines 184-204) on the working set: files   *)
(* is files_data, apply the apply_reduction dict (a function on the names  *)
(* it holds).  The result is [err, groups, warned].  simpledialog is       *)
(* imported nowhere in app.py: reaching line 194 raises NameError.         *)
(***************************************************************************)
LIMITE == 10

\* Line 187: the flag of each file, KeyError on a name apply does not hold
ApplyFlags(files, apply) == [i \in 1..Len(files) |-> apply[files[i].name]]

GerarGrafico(files, apply, titulo, red_freq, red_mag_db, agrupar, sort_idx) ==
    IF files = <<>>
    THEN [err |-> "none", groups |-> <<>>, warned |-> TRUE]
    ELSE IF \E i \in 1..Len(files) : files[i].name \notin DOMAIN apply
    THEN [err |-> "KeyError", groups |-> <<>>, warned |-> FALSE]
    ELSE IF Len(files) > LIMITE /\ agrupar = "Sim"
    THEN [err |-> "NameError", groups |-> <<>>, warned |-> FALSE]
    ELSE (OneChart(plot_files(files, titulo, red_freq, red_mag_db,
                                      ApplyFlags(files, apply), sort_idx)))

(***************************************************************************)
(* The script body (lines 113-204).  Streamlit runs it from top to bottom  *)
(* once per user interaction; st.session_state is what survives a run.     *)
(* ss is [has_files, files, has_apply, apply, err]: the two session keys   *)
(* and the exception that ended the run, "none" while it is running.  A    *)
(* block does nothing once err is set.                                     *)
(***************************************************************************)
SessionState == [has_files |-> s_has_files, files |-> s_files,
                 has_apply |-> s_has_apply, apply |-> s_apply, err |-> "none"]

Range(seq) == {seq[i] : i \in 1..Len(seq)}

\* The files the user can upload, by name.
UploadNames == { <<"c", ".s1p">>, <<"d", ".s2p">> }

UploadContent(name) ==
    CASE name = <<"c", ".s1p">> -> <<HeaderLine, Row1(2, 3, 4), Row1(4, 3, 4)>>
      [] name = <<"d", ".s2p">> -> <<CommentLine, HeaderLine, Row2(4, 3, 4)>>

\* file.read() (line 125): the whole content, or nothing for a file in stale,
\* one read in an earlier run whose object the uploader hands out again with
\* its position at the end.
ReadOf(name, stale) == IF name \in stale THEN <<>> ELSE UploadContent(name)

\* Lines 122-126 for one uploaded file: a name files_data lacks is stored and
\* apply_reduction is rebuilt over the names the uploader holds.
UploadOne(ss, name, uploaded, stale) ==
    IF DictHas(ss.files, name) THEN ss
    ELSE [ss EXCEPT !.has_files = TRUE,
                    !.files = DictSet(ss.files, name, ReadOf(name, stale)),
                    !.has_apply = TRUE,
                    !.apply = [n \in Range(uploaded) |-> FALSE]]

\* The upload block (lines 120-126): the loop over uploaded_files from i on.
RECURSIVE UploadBlock(_, _, _, _)
UploadBlock(ss, i, uploaded, stale) ==
    IF i > Len(uploaded) THEN ss
    ELSE UploadBlock(UploadOne(ss, uploaded[i], uploaded, stale), i + 1,
                     uploaded, stale)

\* Line 135 writing only the flags apply_reduction already holds.
CheckboxWrite_Existing(apply, keys, toggled) ==
    [n \in DOMAIN apply |->
        IF n \in keys THEN (apply[n] # (n = toggled)) ELSE apply[n]]

\* Line 135 for every filename of files_data: the flag becomes what the
\* checkbox returns, its value argument (apply_reduction.get(filename, False))
\* unless the user has just toggled it.
CheckboxWrite(apply, keys, toggled) ==
    [n \in (DOMAIN apply) \cup keys |->
        IF n \in keys
        THEN ((IF n \in DOMAIN apply THEN apply[n] ELSE FALSE) # (n = toggled))
        ELSE apply[n]]

\* Lines 139-141 for the one name whose button was clicked, if it has a row.
RemoveClicked(ss, clicked) ==
    IF ~DictHas(ss.files, clicked) THEN ss
    ELSE IF clicked \notin DOMAIN ss.apply
    THEN [ss EXCEPT !.files = DictDel(ss.files, clicked), !.err = "KeyError"]
    ELSE [ss EXCEPT !.files = DictDel(ss.files, clicked),
                    !.apply = [n \in (DOMAIN ss.apply) \ {clicked} |-> ss.apply[n]]]

\* The file list block (lines 130-141).
ListBlock(ss, toggled, clicked) ==
    IF ss.err # "none" \/ ~ss.has_files THEN ss
    ELSE IF ~ss.has_apply THEN [ss EXCEPT !.err = "KeyError"]
    ELSE RemoveClicked(
             [ss EXCEPT !.apply = CheckboxWrite(ss.apply, KeySet(ss.files), toggled)],
             clicked)

\* Lines 166-167 storing a file whether or not criar_media returned one.
StoreMedia_Always(ss, r) ==
    [ss EXCEPT !.files = DictSet(ss.files, r.nome_media, r.media_content),
               !.apply = [n \in (DOMAIN ss.apply) \cup {r.nome_media} |->
                             IF n = r.nome_media THEN FALSE ELSE ss.apply[n]]]

\* Lines 165-167: the synthesized file and its flag enter the working set.
StoreMedia(ss, r) ==
    IF r.none THEN ss
    ELSE [ss EXCEPT !.files = DictSet(ss.files, r.nome_media, r.media_content),
                    !.apply = [n \in (DOMAIN ss.apply) \cup {r.nome_media} |->
                                  IF n = r.nome_media THEN FALSE ELSE ss.apply[n]]]

\* Lines 158-164: criar_media on the last two files of the working set
MediaOfLastTwo(files) ==
    criar_media(files[Len(files) - 1].content, files[Len(files) - 1].name,
                files[Len(files)].content, files[Len(files)].name)

\* What the handler did: "insufficient" (the warning of line 178), "empty"
\* (the error of line 87) or "created", with the file criar_media returned.
Averaged(ss, outcome, r) == [ss |-> ss, outcome |-> outcome, media |-> r]

\* Lines 164-167 once criar_media has returned r
AfterMedia(ss, r) ==
    Averaged(StoreMedia(ss, r), IF r.none THEN "empty" ELSE "created", r)

\* The "Criar Media dos 2 Ultimos" handler (lines 156-178).
CriarMediaHandler(ss) ==
    IF ss.err # "none" THEN Averaged(ss, "skipped", NoMedia)
    ELSE IF Len(ss.files) < 2 THEN Averaged(ss, "insufficient", NoMedia)
    ELSE AfterMedia(ss, MediaOfLastTwo(ss.files))

\* The "Gerar Grafico" handler (lines 184-204) in a run: the page shows one
\* chart, the radio of line 192 standing at its first option.
GerarGraficoHandler(ss, red, sort_idx) ==
    IF ss.err # "none" THEN [err |-> ss.err, groups |-> <<>>, warned |-> FALSE]
    ELSE GerarGrafico(ss.files, ss.apply, <<"t">>, RedFreqOf(red), RedMagDbOf(red),
                      "Nao", sort_idx)

(***************************************************************************)
(* SpecRender: the handler on working sets of up to LIMITE + 2 files, each *)
(* a one-row sweep or a file of header lines only, with either answer of   *)
(* the radio of line 192.  pl_flags is the apply_reduction dict, by index. *)
(***************************************************************************)
Stems == <<"f01", "f02", "f03", "f04", "f05", "f06", "f07", "f08", "f09", "f10",
           "f11", "f12", "f13", "f14">>

RnAddFile ==
    /\ pl_pc = "input"
    /\ Len(pl_files) < LIMITE + 2
    /\ \E content \in { <<Row2(4, 3, 4)>>, <<HeaderLine>> } :
          pl_files' = Append(pl_files,
                             File(<<Stems[Len(pl_files) + 1], ".s2p">>, content))
    /\ pl_flags' = Append(pl_flags, FALSE)
    /\ UNCHANGED <<pl_red_freq, pl_red_mag_db, pl_agrupar, pl_result, pl_pc>>
    /\ UNCHANGED <<parseVars, reduceVars, avgVars, sessVars>>

\* A click on "Gerar Grafico": lines 184-204.
RnRender ==
    /\ pl_pc = "input"
    /\ \E agrupar \in {"Nao", "Sim"} :
          /\ agrupar = "Sim" => Len(pl_files) > LIMITE
          /\ pl_agrupar' = agrupar
          /\ pl_result' =
                GerarGrafico(pl_files,
                             [n \in KeySet(pl_files) |-> FALSE],
                             <<"t">>, pl_red_freq, pl_red_mag_db, agrupar, <<>>)
    /\ pl_pc' = "done"
    /\ UNCHANGED <<pl_files, pl_flags, pl_red_freq, pl_red_mag_db>>
    /\ UNCHANGED <<parseVars, reduceVars, avgVars, sessVars>>

RenderNext == RnAddFile \/ RnRender

(***************************************************************************)
(* Spec: the page in use.  Every action is one interaction of the user and *)
(* the run of the script it triggers: the upload block, the file list      *)
(* block, the reduction block, then the handler of the button clicked, if  *)
(* any.  The measurement uploader keeps its files from run to run, so the  *)
(* upload block sees all of them in every run.  A checkbox or a "Remover"  *)
(* button can be used only if the last run drew it (s_shown).  The         *)
(* reduction uploader stays empty, so that red_freq and red_mag_db are     *)
(* None in every run; SpecPlot has the renders with a reduction.           *)
(***************************************************************************)
\* No average is requested on a working set of MaxSessionFiles files or more,
\* nor one whose file would have a name of more than MaxNameLen segments.
MaxSessionFiles == 3
MaxNameLen == 7

NoName == <<>>

\* red_upload of line 145 with no file in it
NoReduction == <<>>

NoChart == [err |-> "none", groups |-> <<>>, warned |-> FALSE]

\* What s_last keeps of a run: the button clicked ("other" if none), the
\* exception that ended the run
\* ("none" if it reached the end), the working set the clicked handler found
\* at its first line, the outcome and the file of an average, the flag list
\* and the page of a render.
Run(event, err, entry, outcome, media, flags, chart) ==
    [event |-> event, err |-> err,
     entry |-> [files |-> entry.files, apply |-> entry.apply],
     outcome |-> outcome, media |-> media, flags |-> flags, chart |-> chart]

NoRun == Run("none", "none", [files |-> <<>>, apply |-> <<>>], "none", NoMedia,
             <<>>, NoChart)

\* A run in which no handler ran
PlainRun(ss) ==
    Run("other", ss.err, [files |-> <<>>, apply |-> <<>>], "none", NoMedia, <<>>,
        NoChart)

\* The files a run may read as empty: held by the uploader since an earlier
\* run, and read then, but no longer in files_data.
StaleSets == SUBSET (Range(s_uploaded) \ KeySet(s_files))

\* Lines 120-141 of a run
ScriptTop(uploaded, stale, toggled, clicked) ==
    ListBlock(UploadBlock(SessionState, 1, uploaded, stale), toggled, clicked)

\* The rows the run draws: the keys of files_data when line 131 lists them
Shown(uploaded, stale) ==
    KeySet(UploadBlock(SessionState, 1, uploaded, stale).files)

\* The session state and the page a run leaves
Leaves(ss, shown, last) ==
    /\ s_has_files' = ss.has_files
    /\ s_files' = ss.files
    /\ s_has_apply' = ss.has_apply
    /\ s_apply' = ss.apply
    /\ s_shown' = shown
    /\ s_last' = last

\* The user adds a file to the measurement uploader.
Upload ==
    /\ \E name \in UploadNames \ Range(s_uploaded), stale \in StaleSets :
          /\ s_uploaded' = Append(s_uploaded, name)
          /\ \E ss \in {ScriptTop(Append(s_uploaded, name), stale, NoName, NoName)} :
                Leaves(ss, Shown(Append(s_uploaded, name), stale),
                       PlainRun(ss))
          /\ s_removed' = s_removed \ {name}
    /\ UNCHANGED <<parseVars, reduceVars, plotVars, avgVars>>

\* The user takes a file out of the measurement uploader.
Unupload ==
    /\ \E i \in 1..Len(s_uploaded), stale \in StaleSets :
          /\ s_uploaded' = SelectSeq(s_uploaded, LAMBDA n : n # s_uploaded[i])
          /\ \E ss \in {ScriptTop(SelectSeq(s_uploaded, LAMBDA n : n # s_uploaded[i]),
                                  stale \ {s_uploaded[i]}, NoName, NoName)} :
                Leaves(ss, Shown(SelectSeq(s_uploaded, LAMBDA n : n # s_uploaded[i]),
                                 stale \ {s_uploaded[i]}),
                       PlainRun(ss))
    /\ UNCHANGED s_removed
    /\ UNCHANGED <<parseVars, reduceVars, plotVars, avgVars>>

\* The user ticks or unticks "Aplicar reducao" of a row.
Toggle ==
    /\ \E name \in s_shown, stale \in StaleSets :
          \E ss \in {ScriptTop(s_uploaded, stale, name, NoName)} :
             Leaves(ss, Shown(s_uploaded, stale), PlainRun(ss))
    /\ UNCHANGED <<s_uploaded, s_removed>>
    /\ UNCHANGED <<parseVars, reduceVars, plotVars, avgVars>>

\* The user clicks "Remover" of a row.
Remove ==
    /\ \E name \in s_shown, stale \in StaleSets :
          /\ \E ss \in {ScriptTop(s_uploaded, stale, NoName, name)} :
                Leaves(ss, Shown(s_uploaded, stale), PlainRun(ss))
          /\ s_removed' = IF name \in Shown(s_uploaded, stale)
                          THEN s_removed \cup {name} ELSE s_removed
    /\ UNCHANGED s_uploaded
    /\ UNCHANGED <<parseVars, reduceVars, plotVars, avgVars>>

\* The average is within the bounds of the model.
WithinBounds(files) ==
    IF Len(files) < 2 THEN TRUE
    ELSE /\ Len(files) < MaxSessionFiles
         /\ Len(NomeMedia(files[Len(files) - 1].name, files[Len(files)].name))
                <= MaxNameLen

\* The user clicks "Criar Media dos 2 Ultimos".
Average ==
    /\ \E stale \in StaleSets :
          \E ss \in {ScriptTop(s_uploaded, stale, NoName, NoName)} :
             /\ WithinBounds(ss.files)
             /\ \E h \in {CriarMediaHandler(ss)} :
                   /\ Leaves(h.ss, Shown(s_uploaded, stale),
                             Run("average", h.ss.err, ss, h.outcome, h.media,
                                 <<>>, NoChart))
                   /\ s_removed' = s_removed \ {h.media.nome_media}
    /\ UNCHANGED s_uploaded
    /\ UNCHANGED <<parseVars, reduceVars, plotVars, avgVars>>

\* The flag list of line 187, empty if the handler did not build it
FlagsBuilt(ss, chart) ==
    IF chart.err = "none" /\ ~chart.warned THEN ApplyFlags(ss.files, ss.apply)
    ELSE <<>>

\* The user clicks "Gerar Grafico".
Render ==
    /\ \E stale \in StaleSets, sort_idx \in SortIdxOf(RedFreqOf(NoReduction)) :
          \E ss \in {ScriptTop(s_uploaded, stale, NoName, NoName)} :
             \E chart \in {GerarGraficoHandler(ss, NoReduction, sort_idx)} :
                Leaves(ss, Shown(s_uploaded, stale),
                       Run("render", chart.err, ss, "none", NoMedia,
                           FlagsBuilt(ss, chart), chart))
    /\ UNCHANGED <<s_uploaded, s_removed>>
    /\ UNCHANGED <<parseVars, reduceVars, plotVars, avgVars>>

Next == Upload \/ Unupload \/ Toggle \/ Remove \/ Average \/ Render

(***************************************************************************)
(* The state before any call, and one specification per unit of the        *)
(* program.                                                                *)
(***************************************************************************)
Init ==
    /\ p_filename = <<>>
    /\ p_content = <<>>
    /\ p_trace = NoTrace
    /\ p_pc = "input"
    /\ r_freq = <<>>
    /\ r_mag_db = <<>>
    /\ r_red_freq = <<>>
    /\ r_red_mag_db = <<>>
    /\ r_result = Ok(<<>>)
    /\ r_pc = "input"
    /\ pl_files = <<>>
    /\ pl_flags = <<>>
    /\ pl_red_freq = None
    /\ pl_red_mag_db = None
    /\ pl_agrupar = "Nao"
    /\ pl_result = [err |-> "none", groups |-> <<>>, warned |-> FALSE]
    /\ pl_pc = "input"
    /\ a_file1 = File(<<>>, <<>>)
    /\ a_file2 = File(<<>>, <<>>)
    /\ a_result = NoMedia
    /\ a_back = NoTrace
    /\ a_pc = "input"
    /\ s_has_files = FALSE
    /\ s_files = <<>>
    /\ s_has_apply = FALSE
    /\ s_apply = <<>>
    /\ s_uploaded = <<>>
    /\ s_shown = {}
    /\ s_removed = {}
    /\ s_last = NoRun

SpecParse == Init /\ [][ParseNext]_vars

SpecReduce == Init /\ [][ReduceNext]_vars

SpecPlot == Init /\ [][PlotNext]_vars

SpecAvg == Init /\ [][AvgNext]_vars

SpecRender == Init /\ [][RenderNext]_vars

Spec == Init /\ [][Next]_vars

(***************************************************************************)
(* C2.  parse_s_param returns three sequences of equal length holding      *)
(* exactly one entry per accepted line, in file order.  A line is accepted *)
(* iff, trimmed, it is non-empty, does not begin with "#" or "!", and has  *)
(* at least 3 tokens with tokens 0, 1, 2 numeric in 1-port mode (name      *)
(* ending in .s1p or .cal, in any case), at least 5 tokens with tokens     *)
(* 0, 3, 4 numeric in 2-port mode (any other name).  The entry holds the   *)
(* frequency token (in Hz, stored in GHz) and the real and imaginary       *)
(* tokens of the mode.  The acceptance rule is written here from the       *)
(* claim, not from ParseLine.                                              *)
(***************************************************************************)
C2_OnePort(filename) ==
    filename[Len(filename)] \in {".s1p", ".S1P", ".cal", ".CAL"}

C2_Accepted(line, onePort) ==
    LET t == line.toks
        cols == IF onePort THEN {1, 2, 3} ELSE {1, 4, 5}
        need == IF onePort THEN 3 ELSE 5
    IN  /\ t # <<>>
        /\ t[1].first \notin {"#", "!"}
        /\ Len(t) >= need
        /\ \A i \in cols : t[i].kind = "num"

C2_AcceptedLines(content, onePort) ==
    SelectSeq(content, LAMBDA l : C2_Accepted(l, onePort))

C2_ParseContract ==
    p_pc = "parsed" =>
        LET one == C2_OnePort(p_filename)
            acc == C2_AcceptedLines(p_content, one)
            re  == IF one THEN 2 ELSE 4
            im  == IF one THEN 3 ELSE 5
        IN  /\ DOMAIN p_trace.freq = 1..Len(acc)
            /\ DOMAIN p_trace.s_real = 1..Len(acc)
            /\ DOMAIN p_trace.s_imag = 1..Len(acc)
            /\ \A i \in 1..Len(acc) :
                  /\ RMul(p_trace.freq[i], RInt(GIGA)) = acc[i].toks[1].v
                  /\ p_trace.s_real[i] = acc[i].toks[re].v
                  /\ p_trace.s_imag[i] = acc[i].toks[im].v

\* A 2-port file of two lines, parsed: the first line is accepted although its
\* tokens 1 and 2 are not numeric, the second (4 numeric tokens) is not.
C2_Witness ==
    /\ p_pc = "parsed"
    /\ p_filename = <<"c", ".s2p">>
    /\ Len(p_content) = 2
    /\ Len(p_content[1].toks) = 5
    /\ p_content[1].toks[2].kind = "text"
    /\ p_content[1].toks[3].kind = "text"
    /\ Len(p_content[2].toks) = 4
    /\ \A i \in 1..4 : p_content[2].toks[i].kind = "num"
    /\ Len(p_trace.freq) = 1
    /\ p_trace.s_real[1] = RInt(800000000)

(***************************************************************************)
(* C8.  Flat extrapolation in apply_reduction: for a non-empty reference   *)
(* given in any order, a target frequency below the reference's minimum    *)
(* has the reference magnitude at that minimum subtracted, one above the   *)
(* maximum has the magnitude at that maximum subtracted, one inside the    *)
(* span has the piecewise-linear interpolation of the reference            *)
(* subtracted, and the output has the target's length and order.  Stated   *)
(* on the reference as given (no sorted copy): the subtracted value lies   *)
(* on the segment between two reference points that are neighbours in      *)
(* frequency and enclose the target frequency.                             *)
(***************************************************************************)
C8_IsMin(f, fs) == \A k \in 1..Len(fs) : RLeq(f, fs[k])

C8_IsMax(f, fs) == \A k \in 1..Len(fs) : RLeq(fs[k], f)

C8_OnCurve(x, y, fs, ms) ==
    \E j, k \in 1..Len(fs) :
        /\ RLeq(fs[j], x) /\ RLeq(x, fs[k])
        /\ \A l \in 1..Len(fs) : ~(RLess(fs[j], fs[l]) /\ RLess(fs[l], fs[k]))
        /\ \/ fs[j] = fs[k] /\ y = ms[j]
           \/ /\ RLess(fs[j], fs[k])
              /\ RMul(RSub(y, ms[j]), RSub(fs[k], fs[j]))
                   = RMul(RSub(x, fs[j]), RSub(ms[k], ms[j]))
              /\ (x = fs[k] => y = ms[k])

C8_FlatExtrapolation ==
    (r_pc = "done" /\ r_red_freq # <<>>) =>
        /\ r_result.err = "none"
        /\ DOMAIN r_result.out = DOMAIN r_freq
        /\ \A i \in DOMAIN r_freq :
              LET x == r_freq[i]
                  y == RSub(r_mag_db[i], r_result.out[i])
              IN  IF \A k \in 1..Len(r_red_freq) : RLess(x, r_red_freq[k])
                  THEN \E j \in 1..Len(r_red_freq) :
                          C8_IsMin(r_red_freq[j], r_red_freq) /\ y = r_red_mag_db[j]
                  ELSE IF \A k \in 1..Len(r_red_freq) : RLess(r_red_freq[k], x)
                  THEN \E j \in 1..Len(r_red_freq) :
                          C8_IsMax(r_red_freq[j], r_red_freq) /\ y = r_red_mag_db[j]
                  ELSE C8_OnCurve(x, y, r_red_freq, r_red_mag_db)

\* A reference given in descending order, (5, 4) then (1, -2), and a target at
\* 0 GHz (below), 6 GHz (above): -10 - (-2) = -8 and -10 - 4 = -14.
C8_Witness ==
    /\ r_pc = "done"
    /\ r_red_freq = <<RInt(5), RInt(1)>>
    /\ r_red_mag_db = <<RInt(4), RInt(-2)>>
    /\ r_freq = <<RInt(0), RInt(6)>>
    /\ r_mag_db = <<RInt(-10), RInt(-10)>>
    /\ r_result.out = <<RInt(-8), RInt(-14)>>

(***************************************************************************)
(* C1.  plot_files emits exactly one series per file whose parsed trace is *)
(* non-empty, in input order and labelled with the file name, emits        *)
(* nothing and raises nothing for a file whose trace is empty, and the     *)
(* series of the file at index i is baseline-reduced iff apply_flags[i]    *)
(* is true and a baseline is present: the flag is the one at the file's    *)
(* own index, whatever was skipped before it.                              *)
(***************************************************************************)
C1_Trace(i) == parse_s_param(pl_files[i].content, pl_files[i].name)

\* The indices of the files with a non-empty trace, in input order
C1_Kept ==
    SelectSeq([i \in 1..Len(pl_files) |-> i], LAMBDA i : Len(C1_Trace(i).freq) > 0)

C1_BaselinePresent == ~pl_red_freq.none /\ Len(pl_red_freq.a) > 0

C1_Raw(i) == MagDb(C1_Trace(i).s_real, C1_Trace(i).s_imag)

C1_IsReduced(i, mag_db) ==
    \E sort_idx \in ArgSorts(pl_red_freq.a) :
        mag_db = apply_reduction(C1_Trace(i).freq, C1_Raw(i), pl_red_freq,
                                 pl_red_mag_db, sort_idx).out

C1_OneSeriesPerNonEmptyFile ==
    pl_pc = "done" =>
        /\ pl_result.err = "none"
        /\ Len(pl_result.groups) = 1
        /\ DOMAIN pl_result.groups[1].series = DOMAIN C1_Kept
        /\ \A k \in DOMAIN C1_Kept :
              /\ pl_result.groups[1].series[k].label = pl_files[C1_Kept[k]].name
              /\ pl_result.groups[1].series[k].freq = C1_Trace(C1_Kept[k]).freq
              /\ IF pl_flags[C1_Kept[k]] /\ C1_BaselinePresent
                 THEN /\ C1_IsReduced(C1_Kept[k], pl_result.groups[1].series[k].mag_db)
                      /\ pl_result.groups[1].series[k].mag_db # C1_Raw(C1_Kept[k])
                 ELSE pl_result.groups[1].series[k].mag_db = C1_Raw(C1_Kept[k])

\* The empty file e (flag false) comes first and is skipped; a (flag true) is
\* drawn reduced against the sweep r: 13.9794 - 0 and 0 - 3.0103 dB.
C1_Witness ==
    /\ pl_pc = "done"
    /\ pl_files = <<FileE, FileA>>
    /\ pl_flags = <<FALSE, TRUE>>
    /\ pl_red_freq = RedFreqOf(<<FileR>>)
    /\ Len(pl_result.groups[1].series) = 1
    /\ pl_result.groups[1].series[1].label = <<"a", ".s1p">>
    /\ pl_result.groups[1].series[1].mag_db = <<Rat(139794, 10000), Rat(-30103, 10000)>>

(***************************************************************************)
(* C4.  When reduction is requested for a trace (its flag is true) but no  *)
(* usable baseline exists - no reduction file, a reduction file that       *)
(* parses to an empty trace, or empty reference arrays - the trace's       *)
(* magnitudes are drawn unmodified and no error is raised.                 *)
(***************************************************************************)
C4_NoUsableBaseline == pl_red_freq.none \/ Len(pl_red_freq.a) = 0

C4_MissingBaselineIsNoOp ==
    (pl_pc = "done" /\ C4_NoUsableBaseline) =>
        /\ pl_result.err = "none"
        /\ DOMAIN pl_result.groups[1].series = DOMAIN C1_Kept
        /\ \A k \in DOMAIN C1_Kept :
              pl_flags[C1_Kept[k]] =>
                  pl_result.groups[1].series[k].mag_db = C1_Raw(C1_Kept[k])

\* The reduction file held header lines only (red_freq is an empty array,
\* red_mag_db is None), b has its flag set and is drawn as measured.
C4_Witness ==
    /\ pl_pc = "done"
    /\ pl_red_freq = Arr(<<>>)
    /\ pl_red_mag_db = None
    /\ pl_files = <<FileB>>
    /\ pl_flags = <<TRUE>>
    /\ pl_result.err = "none"
    /\ pl_result.groups[1].series[1].mag_db = <<Rat(60206, 10000), RInt(0)>>

(***************************************************************************)
(* C5.  For two non-empty traces A and B, criar_media produces a file with *)
(* exactly len(A) data rows whose frequencies are A's, in A's order; when  *)
(* A and B have the same length, row i holds the mean of the two real      *)
(* parts and the mean of the two imaginary parts, each taken on its own    *)
(* component, written to six decimals.                                     *)
(***************************************************************************)
C5_A == parse_s_param(a_file1.content, a_file1.name)

C5_B == parse_s_param(a_file2.content, a_file2.name)

\* tok is x written to six decimals: a multiple of 1e-6 within 0.5e-6 of x
C5_SixDecimalsOf(tok, x) ==
    /\ RMul(tok, RInt(MICRO)).d = 1
    /\ RLeq(RAbs(RSub(tok, x)), Rat(1, 2 * MICRO))

C5_AverageOnFirstGrid ==
    (a_pc \in {"done", "back"} /\ Len(C5_A.freq) > 0 /\ Len(C5_B.freq) > 0) =>
        /\ ~a_result.none
        /\ Len(a_result.media_content) = 2 + Len(C5_A.freq)
        /\ a_result.freq_mean = C5_A.freq
        /\ \A i \in 1..Len(C5_A.freq) :
              /\ Len(a_result.media_content[i + 2].toks) = 9
              /\ a_result.media_content[i + 2].toks[1].kind = "num"
              /\ a_result.media_content[i + 2].toks[1].v
                   = RMul(C5_A.freq[i], RInt(GIGA))
        /\ Len(C5_A.freq) = Len(C5_B.freq) =>
              \A i \in 1..Len(C5_A.freq) :
                  /\ RMul(a_result.re_mean[i], RInt(2))
                       = RAdd(C5_A.s_real[i], C5_B.s_real[i])
                  /\ RMul(a_result.im_mean[i], RInt(2))
                       = RAdd(C5_A.s_imag[i], C5_B.s_imag[i])
                  /\ C5_SixDecimalsOf(a_result.media_content[i + 2].toks[4].v,
                                      a_result.re_mean[i])
                  /\ C5_SixDecimalsOf(a_result.media_content[i + 2].toks[5].v,
                                      a_result.im_mean[i])

\* a.s1p with (1, 0) and (2, 1/8) at 0.5 and 1 GHz, b.s2p with (3, 4) and
\* (-1, 1e-6) on the same grid: the means are (2, 2) and (1/2, 0.0625005).
C5_Witness ==
    /\ a_pc = "done"
    /\ a_file1.name = <<"a", ".s1p">>
    /\ a_file2.name = <<"b", ".s2p">>
    /\ C5_A.s_real = <<RInt(1), RInt(2)>>
    /\ C5_B.s_real = <<RInt(3), RInt(-1)>>
    /\ a_result.freq_mean = <<Rat(1, 2), RInt(1)>>
    /\ a_result.re_mean = <<RInt(2), Rat(1, 2)>>
    /\ a_result.im_mean = <<RInt(2), Rat(125001, 2 * MICRO)>>
    /\ a_result.media_content[4].toks[5].v = Rat(62500, MICRO)

(***************************************************************************)
(* C7.  Round trip: parsing the synthesized file under the synthesized     *)
(* name, Media_<nameA>_<nameB>.s2p, yields exactly one row per averaged    *)
(* frequency point, in the same order, whose real and imaginary values are *)
(* the written S21 pair (columns 4-5) and equal the averaged values within *)
(* 1e-6, and whose frequencies equal the averaged grid within 1e-6 GHz;    *)
(* the two header lines contribute no row.                                 *)
(***************************************************************************)
C7_Within(x, y) == RLeq(RAbs(RSub(x, y)), Rat(1, MICRO))

C7_RoundTrip ==
    a_pc = "back" =>
        /\ a_result.nome_media
             = <<"Media_">> \o a_file1.name \o <<"_">> \o a_file2.name \o <<".s2p">>
        /\ DOMAIN a_back.freq = DOMAIN a_result.freq_mean
        /\ DOMAIN a_back.s_real = DOMAIN a_result.freq_mean
        /\ DOMAIN a_back.s_imag = DOMAIN a_result.freq_mean
        /\ \A i \in DOMAIN a_result.freq_mean :
              /\ a_back.s_real[i] = a_result.media_content[i + 2].toks[4].v
              /\ a_back.s_imag[i] = a_result.media_content[i + 2].toks[5].v
              /\ C7_Within(a_back.s_real[i], a_result.re_mean[i])
              /\ C7_Within(a_back.s_imag[i], a_result.im_mean[i])
              /\ C7_Within(a_back.freq[i], a_result.freq_mean[i])

\* Two 1-port files of different lengths: the name still ends in .s2p, the
\* second file is interpolated, and the pair read back is the S21 pair.
C7_Witness ==
    /\ a_pc = "back"
    /\ a_file1.name = <<"a", ".s1p">>
    /\ a_file2.name = <<"a", ".s1p">>
    /\ Len(C5_A.freq) = 2
    /\ Len(C5_B.freq) = 1
    /\ Len(a_back.freq) = 2
    /\ a_result.re_mean[1] # Zero
    /\ a_back.s_real[1] # Zero
    /\ a_back.s_imag # a_result.im_mean

(***************************************************************************)
(* C6.  When more than 10 traces are non-empty and grouping is requested   *)
(* with group size g (10, the handler's default), render partitions the    *)
(* ordered series into consecutive groups of exactly g series (the last    *)
(* may be smaller), each non-empty trace in exactly one group, in order,   *)
(* group n titled "<title> - Parte <n>"; otherwise exactly one group       *)
(* holds all the series.                                                   *)
(***************************************************************************)
C6_GroupSize == 10

C6_Parte == <<"1", "2", "3">>

C6_Labels(group) == [k \in 1..Len(group.series) |-> group.series[k].label]

C6_KeptNames == [k \in 1..Len(C1_Kept) |-> pl_files[C1_Kept[k]].name]

C6_Min(a, b) == IF a < b THEN a ELSE b

C6_Grouping ==
    pl_pc = "done" =>
        IF Len(C1_Kept) > LIMITE /\ pl_agrupar = "Sim"
        THEN /\ Len(pl_result.groups)
                  = (Len(C1_Kept) + C6_GroupSize - 1) \div C6_GroupSize
             /\ \A n \in 1..Len(pl_result.groups) :
                   /\ pl_result.groups[n].title = <<"t", " - Parte ", C6_Parte[n]>>
                   /\ C6_Labels(pl_result.groups[n])
                        = SubSeq(C6_KeptNames, (n - 1) * C6_GroupSize + 1,
                                 C6_Min(n * C6_GroupSize, Len(C1_Kept)))
        ELSE /\ pl_files # <<>> => Len(pl_result.groups) = 1
             /\ \A n \in 1..Len(pl_result.groups) :
                   /\ pl_result.groups[n].title = <<"t">>
                   /\ C6_Labels(pl_result.groups[n]) = C6_KeptNames

(***************************************************************************)
(* C3: whenever an averaging request is declined, because the working set  *)
(* holds fewer than two files or because one of the two selected files     *)
(* parses to a trace of length zero, no synthetic file is produced, no     *)
(* exception escapes, and the file map and the flag map are exactly what   *)
(* the request found.  The request is the handler of lines 156-178; what   *)
(* it found is the working set at line 156.                                *)
(***************************************************************************)
C3_Selected(k) == s_last.entry.files[Len(s_last.entry.files) - 2 + k]

C3_ZeroLength(file) == Len(parse_s_param(file.content, file.name).freq) = 0

C3_Declined ==
    /\ s_last.event = "average"
    /\ IF Len(s_last.entry.files) < 2 THEN TRUE
       ELSE C3_ZeroLength(C3_Selected(1)) \/ C3_ZeroLength(C3_Selected(2))

C3_DeclinedAverageChangesNothing ==
    C3_Declined =>
        /\ s_last.media.none
        /\ s_last.outcome \in {"insufficient", "empty"}
        /\ s_last.err = "none"
        /\ s_files = s_last.entry.files
        /\ s_apply = s_last.entry.apply

\* An average declined on two files, one of them empty, one of them flagged
C3_Witness ==
    /\ C3_Declined
    /\ Len(s_last.entry.files) = 2
    /\ ~C3_ZeroLength(C3_Selected(1))
    /\ C3_ZeroLength(C3_Selected(2))
    /\ s_apply[C3_Selected(1).name]

(***************************************************************************)
(* C9: once a file is removed it is absent from the file map and from the  *)
(* flag map, and stays absent through every later interaction until the    *)
(* user adds a file of that name again: no later render draws it and no    *)
(* later average selects it.  s_removed holds the names removed and not    *)
(* added by the user since.                                                *)
(***************************************************************************)
C9_Labels(group) == {group.series[k].label : k \in 1..Len(group.series)}

C9_Drawn ==
    UNION {C9_Labels(s_last.chart.groups[g]) : g \in 1..Len(s_last.chart.groups)}

C9_Averaged ==
    IF s_last.event = "average" /\ Len(s_last.entry.files) >= 2
    THEN {C3_Selected(1).name, C3_Selected(2).name} ELSE {}

C9_RemovedStaysAbsent ==
    \A name \in s_removed :
        /\ ~DictHas(s_files, name)
        /\ name \notin DOMAIN s_apply
        /\ name \notin C9_Drawn
        /\ name \notin C9_Averaged

(***************************************************************************)
(* C10: after any sequence of additions, removals, toggles and averages,   *)
(* every name of the file map has an entry in the flag map when a render   *)
(* or an average runs: the flag list of a render has the length of the     *)
(* file list and holds, index by index, the flag of the file, and no run   *)
(* ends in a failed lookup or deletion of a flag, also for a synthesized   *)
(* file after a later upload has rebuilt the flag map.                     *)
(***************************************************************************)
C10_Covered(files, apply) == KeySet(files) \subseteq DOMAIN apply

C10_Rendered == s_last.event = "render" /\ s_last.entry.files # <<>>

C10_FlagMapCoversFileMap ==
    /\ s_last.err = "none"
    /\ C10_Covered(s_files, s_apply)
    /\ s_last.event \in {"average", "render"} =>
          C10_Covered(s_last.entry.files, s_last.entry.apply)
    /\ C10_Rendered =>
          /\ Len(s_last.flags) = Len(s_last.entry.files)
          /\ \A i \in 1..Len(s_last.flags) :
                s_last.flags[i] = s_apply[s_last.entry.files[i].name]

\* A render of a working set in which a file was added after the synthesized
\* one, whose flag has been set since
C10_Witness ==
    /\ C10_Rendered
    /\ \E i \in 1..Len(s_last.entry.files) :
          /\ s_last.entry.files[i].name[1] = "Media_"
          /\ i < Len(s_last.entry.files)
          /\ s_last.flags[i]

====
